---- MODULE Spec2Model ----
(***************************************************************************)
(* Reminder scheduling and delivery of PlanD:                              *)
(* src/services/reminder/scheduler.py (ReminderScheduler) on top of the    *)
(* APScheduler job store, the task/settings store of pland/database and    *)
(* the plan store of database/models.                                      *)
(*                                                                         *)
(* Time is counted in minutes since 00:00 of day 0.                        *)
(***************************************************************************)
EXTENDS Integers, Sequences, FiniteSets, TLC

VARIABLES
    now,        \* datetime.now(), in minutes
    lifecycle,  \* state of self.scheduler: "new", "running" or "stopped"
    startup,    \* TRUE while the task created by start() has not run yet
    jobs,       \* the live jobs of the job store
    tasks,      \* Store: tasks table
    plans,      \* Store: plans with their steps
    settings,   \* Store: reminder_settings table (0 = no row)
    ops,        \* number of store changes and scheduling calls so far
    last,       \* what the most recent operation did (observation only)
    qh,         \* inputs and result of the last _is_quiet_hours evaluation
    ri,         \* inputs and results of the last interval resolution
    gateway,    \* the send attempts of the Notifier the gateway has received
    inflight    \* the job callbacks that have started and not yet returned

vars == <<now, lifecycle, startup, jobs, tasks, plans, settings, ops, last, qh, ri,
          gateway, inflight>>

-----------------------------------------------------------------------------
(* Bounds of the model *)

\* the clock stops advancing at StartTime + Horizon
Horizon == 120
\* number of store changes and scheduling calls in one run
MaxOps == 4
\* largest step of the clock between two events
TickMinutes == 30

\* the moment the process starts (22:00 of day 0)
StartTime == 1320

Users == {1, 2}
TaskIds == {1}
PlanIds == {1}
StepIds == {1, 2}
DueTimes == {1380, 1440}
EnergyLevels == {0, 8}
Priorities == {"high", "medium", "low"}
TaskPriorities == {"high"}
PlanPriorities == {"high", "other"}
Outcomes == {"ok", "transient", "permanent"}

\* the user each task and each plan is created for, by id
TaskOwners == <<1>>
PlanOwners == <<2>>
TaskOwner(t) == TaskOwners[t]
PlanOwner(p) == PlanOwners[p]

-----------------------------------------------------------------------------
(* Time-of-day strings, as sequences of characters *)

DigitChars == <<"0", "1", "2", "3", "4", "5", "6", "7", "8", "9">>

IsDigit(c) == \E i \in 1..10 : DigitChars[i] = c

DigitValue(c) == (CHOOSE i \in 1..10 : DigitChars[i] = c) - 1

\* value of a string of one or two digits, -1 when it is not one
NumberOf(s) ==
    IF Len(s) = 1 /\ IsDigit(s[1]) THEN DigitValue(s[1])
    ELSE IF Len(s) = 2 /\ IsDigit(s[1]) /\ IsDigit(s[2])
         THEN 10 * DigitValue(s[1]) + DigitValue(s[2])
         ELSE -1

\* datetime.now().strftime("%H:%M")
strftime(t) ==
    LET m == t % 1440
        h == m \div 60
        r == m % 60
    IN  <<DigitChars[(h \div 10) + 1], DigitChars[(h % 10) + 1], ":",
          DigitChars[(r \div 10) + 1], DigitChars[(r % 10) + 1]>>

ParseError == -1

\* datetime.strptime(s, "%H:%M").time(), as the minute of the day;
\* ParseError stands for the ValueError
strptime(s) ==
    LET colons == {i \in 1..Len(s) : s[i] = ":"}
    IN  IF Cardinality(colons) # 1 THEN ParseError
        ELSE LET c == CHOOSE i \in colons : TRUE
                 h == NumberOf(SubSeq(s, 1, c - 1))
                 m == NumberOf(SubSeq(s, c + 1, Len(s)))
             IN  IF h < 0 \/ h > 23 \/ m < 0 \/ m > 59 THEN ParseError
                 ELSE 60 * h + m

\* mutation of _is_quiet_hours: the wraparound branch joins with "and"
IsQuietHoursAndWrap(current_time, start, end) ==
    LET current == strptime(current_time)
        quiet_start == strptime(start)
        quiet_end == strptime(end)
    IN  IF ParseError \in {current, quiet_start, quiet_end} THEN FALSE
        ELSE IF quiet_start <= quiet_end
             THEN quiet_start <= current /\ current <= quiet_end
             ELSE current >= quiet_start /\ current <= quiet_end

\* ReminderScheduler._is_quiet_hours on (current_time, settings.quiet_hours_start,
\* settings.quiet_hours_end)
IsQuietHours(current_time, start, end) ==
    LET current == strptime(current_time)
        quiet_start == strptime(start)
        quiet_end == strptime(end)
    IN  IF ParseError \in {current, quiet_start, quiet_end} THEN FALSE
        ELSE IF quiet_start <= quiet_end
             THEN quiet_start <= current /\ current <= quiet_end
             ELSE current >= quiet_start \/ current <= quiet_end

-----------------------------------------------------------------------------
(* The Store *)

\* rows of reminder_settings a user can have; settings[u] = 0 is "no row"
SettingsTable == <<
    [default_reminder_time |-> 30,
     priority_high_interval |-> 30,
     priority_medium_interval |-> 60,
     priority_low_interval |-> 120,
     quiet_hours_start |-> <<"2", "3", ":", "0", "0">>,
     quiet_hours_end |-> <<"0", "7", ":", "0", "0">>,
     reminder_types |-> {"all"}],
    [default_reminder_time |-> 15,
     priority_high_interval |-> 30,
     priority_medium_interval |-> 60,
     priority_low_interval |-> 120,
     quiet_hours_start |-> <<"1", "2", ":", "0", "0">>,
     quiet_hours_end |-> <<"1", "4", ":", "0", "0">>,
     reminder_types |-> {"daily", "task"}],
    [default_reminder_time |-> 30,
     priority_high_interval |-> 0,
     priority_medium_interval |-> 0 - 60,
     priority_low_interval |-> 1,
     quiet_hours_start |-> <<"2", "3", ":", "0", "0">>,
     quiet_hours_end |-> <<"0", "7", ":", "0", "0">>,
     reminder_types |-> {"all"}] >>

AllSettingsIds == 1..Len(SettingsTable)

\* the rows the Store of the scheduling model holds: those whose intervals are
\* all positive
SettingsIds ==
    {i \in AllSettingsIds : /\ SettingsTable[i].priority_high_interval > 0
                            /\ SettingsTable[i].priority_medium_interval > 0
                            /\ SettingsTable[i].priority_low_interval > 0}

\* Database.get_reminder_settings: the row, or None (0) when there is none
get_reminder_settings(u) == settings[u]

NoTask == [exists |-> FALSE, user |-> 0, due |-> 0, completed |-> FALSE,
           energy |-> 0, priority |-> "low"]

\* Database.get_task: the row, or None (NoTask) when there is none
get_task(t) == tasks[t]

NoPlan == [exists |-> FALSE, user |-> 0, priority |-> "other",
           steps |-> [s \in StepIds |-> "pending"]]

\* session.get(Plan, plan_id)
get_plan(p) == plans[p]

\* Database.get_all_plans
get_all_plans == {p \in PlanIds : plans[p].exists}

\* Config.PRIORITY_INTERVALS, minutes per priority
check_intervals == [high |-> 30, medium |-> 60, low |-> 120]

\* self.check_intervals.get(priority, self.check_intervals[Config.PRIORITY_LOW])
PlanInterval(priority) ==
    IF priority \in DOMAIN check_intervals THEN check_intervals[priority]
    ELSE check_intervals["low"]

\* the user is inside the quiet hours of the stored settings at time t
InQuietHours(u, t) ==
    /\ u \in Users
    /\ settings[u] # 0
    /\ IsQuietHours(strftime(t), SettingsTable[settings[u]].quiet_hours_start,
                    SettingsTable[settings[u]].quiet_hours_end)

-----------------------------------------------------------------------------
(* The job store of APScheduler *)

\* f"task_{task_id}", f"plan_{plan.id}", f"check_tasks_{user_id}_{priority}"
TaskJobId(t) == [k |-> "task_", a |-> t, p |-> ""]
PlanJobId(p) == [k |-> "plan_", a |-> p, p |-> ""]
CheckJobId(u, pr) == [k |-> "check_tasks_", a |-> u, p |-> pr]

\* a "date" job: fires once at run_date and is then finished
DateJob(id, run_date, user) ==
    [id |-> id, trigger |-> "date", start |-> run_date, next |-> run_date,
     interval |-> 0, user |-> user]

\* mutation of IntervalJob: the first fire is counted back from the creation
IntervalJobBackwards(id, minutes, user, t) ==
    [id |-> id, trigger |-> "interval", start |-> t - minutes,
     next |-> t - minutes, interval |-> minutes, user |-> user]

\* an IntervalTrigger(minutes=...) job created at time t: its start_date, the
\* first fire, is one interval after its creation
IntervalJob(id, minutes, user, t) ==
    [id |-> id, trigger |-> "interval", start |-> t + minutes,
     next |-> t + minutes, interval |-> minutes, user |-> user]

\* "energy_check", the id of the job of _schedule_energy_based_reminders
EnergyJobId == [k |-> "energy_check", a |-> 0, p |-> ""]

\* mutation of the job ids: the number alone, without the kind of the job
JobIdStringBare(id) == ToString(id.a)

\* the id string the f-string of the scheduling method builds: "task_1",
\* "plan_1", "check_tasks_1_high", "energy_check"
JobIdString(id) ==
    IF id = EnergyJobId THEN id.k
    ELSE id.k \o ToString(id.a) \o (IF id.p = "" THEN "" ELSE "_" \o id.p)

\* mutation of add_job: the job of the same id is left in the store
add_job_keep_existing(store, job) == store \cup {job}

\* self.scheduler.add_job(..., id=..., replace_existing=True) on the job store
\* of a running scheduler: the job whose id string is the same is replaced
add_job(store, job) ==
    {j \in store : JobIdString(j.id) # JobIdString(job.id)} \cup {job}

JobsWithId(id) == {j \in jobs : j.id = id}

DueJobs == {j \in jobs : j.next <= now}

\* the job store after the scheduler has advanced the trigger of a fired job:
\* a date job is finished and removed, an interval job moves on by its interval
AfterFire(job) ==
    IF job.trigger = "date" THEN jobs \ {job}
    ELSE (jobs \ {job}) \cup {[job EXCEPT !.next = job.next + job.interval]}

\* a live job of the same id carries another fire time or interval
Replaces(job) ==
    \E j \in jobs : j.id = job.id /\ (j.next # job.next \/ j.interval # job.interval)

NoId == [k |-> "", a |-> 0, p |-> ""]

\* the observation record of an operation
Obs(op, id, user) ==
    [op |-> op, id |-> id, user |-> user, arg |-> 0, installs |-> {},
     replaced |-> FALSE, target |-> "none", quiet |-> FALSE, sends |-> {},
     raised |-> "none"]

QhIdle == [h |-> <<0, 0, 0>>, m |-> <<0, 0, 0>>, done |-> FALSE,
           result |-> FALSE]

NoResult == [raised |-> "none", value |-> 0]

RiIdle == [priority |-> "low", s |-> 0, t1 |-> 0, t2 |-> 0, done |-> FALSE,
           base |-> NoResult, r1 |-> NoResult, r2 |-> NoResult,
           plan |-> NoResult, job |-> NoResult]

-----------------------------------------------------------------------------
(* Construction *)

Init ==
    /\ now = StartTime
    /\ lifecycle = "new"
    /\ startup = FALSE
    /\ jobs = {}
    /\ tasks = [t \in TaskIds |-> NoTask]
    /\ plans = [p \in PlanIds |-> NoPlan]
    /\ settings = [u \in Users |-> 0]
    /\ ops = 0
    /\ last = Obs("init", NoId, 0)
    /\ qh = QhIdle
    /\ ri = RiIdle
    /\ gateway = <<>>
    /\ inflight = {}

-----------------------------------------------------------------------------
(* The clock *)

\* time passes up to the next fire time of a live job, at most TickMinutes
Tick ==
    /\ lifecycle = "running"
    /\ DueJobs = {}
    /\ LET limit == now + TickMinutes
           nexts == {j.next : j \in jobs}
           target == IF \E n \in nexts : n < limit
                     THEN CHOOSE n \in nexts : \A k \in nexts : n <= k
                     ELSE limit
       IN  /\ target <= StartTime + Horizon
           /\ now' = target
    /\ last' = Obs("tick", NoId, 0)
    /\ UNCHANGED <<lifecycle, startup, jobs, tasks, plans, settings, qh, ri, ops, gateway, inflight>>

-----------------------------------------------------------------------------
(* Scheduling operations of ReminderScheduler                              *)
(*                                                                         *)
(* The bot starts the scheduler right after constructing it and stops it   *)
(* when the process ends (bot/bot.py), so the scheduling methods and the   *)
(* job callbacks meet a running scheduler.  The store changes and the      *)
(* scheduling calls of one run are counted in ops and capped by MaxOps.    *)

\* ReminderScheduler.start: starts the scheduler and creates the task that
\* runs _schedule_all_reminders
start ==
    /\ lifecycle = "new"
    /\ lifecycle' = "running"
    /\ startup' = TRUE
    /\ last' = Obs("start", NoId, 0)
    /\ UNCHANGED <<now, jobs, tasks, plans, settings, qh, ri, ops, gateway, inflight>>

\* ReminderScheduler.stop: shutdown() of a running scheduler drops its jobs
stop ==
    /\ lifecycle = "running"
    /\ lifecycle' = "stopped"
    /\ startup' = FALSE
    /\ jobs' = {}
    /\ last' = Obs("stop", NoId, 0)
    /\ UNCHANGED <<now, tasks, plans, settings, qh, ri, ops, gateway, inflight>>

\* the job _schedule_plan_reminders builds for a plan
PlanJob(p) ==
    IntervalJob(PlanJobId(p), PlanInterval(plans[p].priority), 0, now)

Install(job) == [id |-> job.id, next |-> job.next, interval |-> job.interval]

RECURSIVE AddPlanJobs(_, _)
AddPlanJobs(store, ps) ==
    IF ps = {} THEN store
    ELSE LET p == CHOOSE x \in ps : TRUE
         IN  AddPlanJobs(add_job(store, PlanJob(p)), ps \ {p})

\* ReminderScheduler._schedule_all_reminders, the task created by start():
\* a plan job for every plan of the store; nothing for tasks
_schedule_all_reminders ==
    /\ lifecycle = "running"
    /\ startup
    /\ startup' = FALSE
    /\ jobs' = AddPlanJobs(jobs, get_all_plans)
    /\ last' = [Obs("_schedule_all_reminders", NoId, 0) EXCEPT
                    !.installs = {Install(PlanJob(p)) : p \in get_all_plans},
                    !.replaced = \E p \in get_all_plans : Replaces(PlanJob(p))]
    /\ UNCHANGED <<now, lifecycle, tasks, plans, settings, qh, ri, ops, gateway, inflight>>

\* ReminderScheduler._schedule_plan_reminders(plan)
_schedule_plan_reminders(p) ==
    /\ lifecycle = "running"
    /\ plans[p].exists
    /\ jobs' = add_job(jobs, PlanJob(p))
    /\ last' = [Obs("_schedule_plan_reminders", PlanJobId(p), plans[p].user)
                    EXCEPT !.installs = {Install(PlanJob(p))},
                           !.replaced = Replaces(PlanJob(p))]
    /\ ops < MaxOps
    /\ ops' = ops + 1
    /\ UNCHANGED <<now, lifecycle, startup, tasks, plans, settings, qh, ri, gateway, inflight>>

\* advance_time of add_task_reminder: the lead of the settings, times 1.5 and
\* truncated for a task of energy level 8 or more
AdvanceTime(s, task) ==
    IF task.energy # 0 /\ task.energy >= 8
    THEN (3 * SettingsTable[s].default_reminder_time) \div 2
    ELSE SettingsTable[s].default_reminder_time

\* ReminderScheduler.add_task_reminder(task_id, user_id, due_date)
add_task_reminder(t, u, due_date) ==
    /\ lifecycle = "running"
    /\ LET s == get_reminder_settings(u)
           task == get_task(t)
           obs == [Obs("add_task_reminder", TaskJobId(t), u) EXCEPT
                       !.arg = due_date]
       IN  IF s = 0 \/ ~task.exists
           THEN /\ last' = obs
                /\ UNCHANGED jobs
           ELSE LET reminder_time == due_date - AdvanceTime(s, task)
                    job == DateJob(TaskJobId(t), reminder_time, u)
                IN  IF reminder_time > now
                    THEN /\ jobs' = add_job(jobs, job)
                         /\ last' = [obs EXCEPT !.installs = {Install(job)},
                                                !.replaced = Replaces(job),
                                                !.target = "active"]
                    ELSE /\ last' = [obs EXCEPT !.target = "active"]
                         /\ UNCHANGED jobs
    /\ ops < MaxOps
    /\ ops' = ops + 1
    /\ UNCHANGED <<now, lifecycle, startup, tasks, plans, settings, qh, ri, gateway, inflight>>

\* the interval of a priority in the settings passed to
\* _schedule_priority_based_reminders
SettingsInterval(s, pr) ==
    CASE pr = "high" -> SettingsTable[s].priority_high_interval
      [] pr = "medium" -> SettingsTable[s].priority_medium_interval
      [] OTHER -> SettingsTable[s].priority_low_interval

CheckJob(u, s, pr) ==
    IntervalJob(CheckJobId(u, pr), SettingsInterval(s, pr), u, now)

RECURSIVE AddCheckJobs(_, _, _, _)
AddCheckJobs(store, u, s, prs) ==
    IF prs = {} THEN store
    ELSE LET pr == CHOOSE x \in prs : TRUE
         IN  AddCheckJobs(add_job(store, CheckJob(u, s, pr)), u, s, prs \ {pr})

\* ReminderScheduler._schedule_priority_based_reminders(user_id, settings)
_schedule_priority_based_reminders(u, s) ==
    /\ lifecycle = "running"
    /\ s # 0
    /\ jobs' = AddCheckJobs(jobs, u, s, Priorities)
    /\ last' = [Obs("_schedule_priority_based_reminders", NoId, u) EXCEPT
                    !.installs = {Install(CheckJob(u, s, pr)) : pr \in Priorities},
                    !.replaced = \E pr \in Priorities : Replaces(CheckJob(u, s, pr))]
    /\ ops < MaxOps
    /\ ops' = ops + 1
    /\ UNCHANGED <<now, lifecycle, startup, tasks, plans, settings, qh, ri, gateway, inflight>>

-----------------------------------------------------------------------------
(* Job callbacks *)

\* one call of bot.send_message: to whom, about what, whether the moment is
\* inside the user's quiet hours, and how the gateway answered
Send(u, what, outcome) ==
    [user |-> u, what |-> what, quiet |-> InQuietHours(u, now),
     outcome |-> outcome]

TargetState(row, done) ==
    IF ~row.exists THEN "missing" ELSE IF done THEN "completed" ELSE "active"

\* mutation of _send_task_reminder: the completed flag of the task is not
\* looked at
TaskReminderSendsStale(t, u, outcome) ==
    LET s == get_reminder_settings(u)
        task == get_task(t)
    IN  IF s = 0 THEN {}
        ELSE IF IsQuietHours(strftime(now), SettingsTable[s].quiet_hours_start,
                             SettingsTable[s].quiet_hours_end) THEN {}
        ELSE IF task.exists
             THEN {Send(u, <<"task", t>>, outcome)}
             ELSE {}

\* ReminderScheduler._send_task_reminder(task_id, user_id): the messages sent
\* when the gateway answers with outcome
TaskReminderSends(t, u, outcome) ==
    LET s == get_reminder_settings(u)
        task == get_task(t)
    IN  IF s = 0 THEN {}
        ELSE IF IsQuietHours(strftime(now), SettingsTable[s].quiet_hours_start,
                             SettingsTable[s].quiet_hours_end) THEN {}
        ELSE IF task.exists /\ ~task.completed
             THEN {Send(u, <<"task", t>>, outcome)}
             ELSE {}

\* the date job of a task fires: the scheduler finishes the job and runs
\* _send_task_reminder
FireTask(job, outcome) ==
    /\ lifecycle = "running"
    /\ job \in DueJobs
    /\ job.id.k = "task_"
    /\ jobs' = AfterFire(job)
    /\ last' = [Obs("fire_task", job.id, job.user) EXCEPT
                    !.target = TargetState(get_task(job.id.a),
                                           get_task(job.id.a).completed),
                    !.quiet = InQuietHours(job.user, now),
                    !.sends = TaskReminderSends(job.id.a, job.user, outcome)]
    /\ UNCHANGED <<now, lifecycle, startup, tasks, plans, settings, qh, ri, ops, gateway, inflight>>

\* mutation of _check_plan_status: a failed send ends the loop over the steps
PlanStatusSendsAbort(p, outcomes) ==
    LET plan == get_plan(p)
        pending == {x \in StepIds : plan.steps[x] # "completed"}
    IN  IF ~plan.exists THEN {}
        ELSE {Send(plan.user, <<"step", st>>, outcomes[st]) :
                st \in {x \in pending :
                          \A y \in pending : y < x => outcomes[y] = "ok"}}

\* ReminderScheduler._check_plan_status(plan_id) with _send_reminder: one
\* message per step that is not completed, whatever the time and whatever the
\* gateway answered for the steps before
PlanStatusSends(p, outcomes) ==
    LET plan == get_plan(p)
    IN  IF ~plan.exists THEN {}
        ELSE {Send(plan.user, <<"step", st>>, outcomes[st]) :
                st \in {x \in StepIds : plan.steps[x] # "completed"}}

\* the interval job of a plan fires: the scheduler advances the job and runs
\* _check_plan_status
FirePlan(job, outcomes) ==
    /\ lifecycle = "running"
    /\ job \in DueJobs
    /\ job.id.k = "plan_"
    /\ jobs' = AfterFire(job)
    /\ LET plan == get_plan(job.id.a)
       IN  last' = [Obs("fire_plan", job.id, plan.user) EXCEPT
                    !.target = TargetState(plan,
                                   \A st \in StepIds : plan.steps[st] = "completed"),
                    !.quiet = InQuietHours(plan.user, now),
                    !.sends = PlanStatusSends(job.id.a, outcomes)]
    /\ UNCHANGED <<now, lifecycle, startup, tasks, plans, settings, qh, ri, ops, gateway, inflight>>

\* Database.get_upcoming_tasks(user_id), filtered by priority as in
\* _check_upcoming_tasks
UpcomingTasks(u, pr) ==
    {t \in TaskIds : /\ tasks[t].exists
                     /\ tasks[t].user = u
                     /\ tasks[t].due > now
                     /\ ~tasks[t].completed
                     /\ tasks[t].priority = pr}

\* the orders in which get_upcoming_tasks can return ts (ORDER BY due_date ASC)
DueOrders(ts) ==
    {sq \in [1..Cardinality(ts) -> ts] :
        /\ \A i, j \in 1..Cardinality(ts) : i # j => sq[i] # sq[j]
        /\ \A i, j \in 1..Cardinality(ts) :
              i < j => tasks[sq[i]].due <= tasks[sq[j]].due}

RECURSIVE UpcomingSends(_, _, _, _)
\* the loop of _check_upcoming_tasks over the tasks sq[i..]: a task due within
\* the hour needs the message format "urgent_reminder", which is not defined,
\* and a failed send raises; either ends the loop
UpcomingSends(u, sq, i, outcomes) ==
    IF i > Len(sq) THEN {}
    ELSE LET t == sq[i]
             time_until_due == tasks[t].due - now
         IN  IF time_until_due <= 60 THEN {}
             ELSE IF time_until_due <= 24 * 60
                  THEN {Send(u, <<"task", t>>, outcomes[t])} \cup
                       (IF outcomes[t] = "ok"
                        THEN UpcomingSends(u, sq, i + 1, outcomes) ELSE {})
                  ELSE UpcomingSends(u, sq, i + 1, outcomes)

\* ReminderScheduler._check_upcoming_tasks(user_id, priority)
CheckUpcomingSends(u, pr, sq, outcomes) ==
    LET s == get_reminder_settings(u)
    IN  IF s = 0 THEN {}
        ELSE IF IsQuietHours(strftime(now), SettingsTable[s].quiet_hours_start,
                             SettingsTable[s].quiet_hours_end) THEN {}
        ELSE UpcomingSends(u, sq, 1, outcomes)

\* the interval job of a priority check fires
FireCheck(job, outcomes) ==
    /\ lifecycle = "running"
    /\ job \in DueJobs
    /\ job.id.k = "check_tasks_"
    /\ jobs' = AfterFire(job)
    /\ \E sq \in DueOrders(UpcomingTasks(job.user, job.id.p)) :
          last' = [Obs("fire_check", job.id, job.user) EXCEPT
                    !.quiet = InQuietHours(job.user, now),
                    !.sends = CheckUpcomingSends(job.user, job.id.p, sq, outcomes)]
    /\ UNCHANGED <<now, lifecycle, startup, tasks, plans, settings, qh, ri, ops, gateway, inflight>>

-----------------------------------------------------------------------------
(* The Store, changed by the chat handlers *)

\* Database.add_task
AddTask(t, due, energy, pr) ==
    /\ lifecycle # "stopped"
    /\ ~tasks[t].exists
    /\ due > now
    /\ tasks' = [tasks EXCEPT ![t] = [exists |-> TRUE, user |-> TaskOwner(t), due |-> due,
                                      completed |-> FALSE, energy |-> energy,
                                      priority |-> pr]]
    /\ last' = Obs("store", NoId, 0)
    /\ ops < MaxOps
    /\ ops' = ops + 1
    /\ UNCHANGED <<now, lifecycle, startup, jobs, plans, settings, qh, ri, gateway, inflight>>

\* Database.update_task_status(task_id, True)
CompleteTask(t) ==
    /\ lifecycle # "stopped"
    /\ tasks[t].exists
    /\ ~tasks[t].completed
    /\ tasks' = [tasks EXCEPT ![t].completed = TRUE]
    /\ last' = Obs("store", NoId, 0)
    /\ ops < MaxOps
    /\ ops' = ops + 1
    /\ UNCHANGED <<now, lifecycle, startup, jobs, plans, settings, qh, ri, gateway, inflight>>

\* Database.delete_task
DeleteTask(t) ==
    /\ lifecycle # "stopped"
    /\ tasks[t].exists
    /\ tasks' = [tasks EXCEPT ![t] = NoTask]
    /\ last' = Obs("store", NoId, 0)
    /\ ops < MaxOps
    /\ ops' = ops + 1
    /\ UNCHANGED <<now, lifecycle, startup, jobs, plans, settings, qh, ri, gateway, inflight>>

\* PlanServiceV2.create_plan, with its steps
CreatePlan(p, pr) ==
    /\ lifecycle # "stopped"
    /\ ~plans[p].exists
    /\ plans' = [plans EXCEPT ![p] = [exists |-> TRUE, user |-> PlanOwner(p),
                                      priority |-> pr,
                                      steps |-> [s \in StepIds |-> "pending"]]]
    /\ last' = Obs("store", NoId, 0)
    /\ ops < MaxOps
    /\ ops' = ops + 1
    /\ UNCHANGED <<now, lifecycle, startup, jobs, tasks, settings, qh, ri, gateway, inflight>>

\* PlanServiceV2.update_plan_step setting status = "completed"
CompleteStep(p, st) ==
    /\ lifecycle # "stopped"
    /\ plans[p].exists
    /\ plans[p].steps[st] # "completed"
    /\ plans' = [plans EXCEPT ![p].steps[st] = "completed"]
    /\ last' = Obs("store", NoId, 0)
    /\ ops < MaxOps
    /\ ops' = ops + 1
    /\ UNCHANGED <<now, lifecycle, startup, jobs, tasks, settings, qh, ri, gateway, inflight>>

\* PlanServiceV2.delete_plan
DeletePlan(p) ==
    /\ lifecycle # "stopped"
    /\ plans[p].exists
    /\ plans' = [plans EXCEPT ![p] = NoPlan]
    /\ last' = Obs("store", NoId, 0)
    /\ ops < MaxOps
    /\ ops' = ops + 1
    /\ UNCHANGED <<now, lifecycle, startup, jobs, tasks, settings, qh, ri, gateway, inflight>>

\* Database.update_reminder_settings: insert or replace the user's row
UpdateSettings(u, s) ==
    /\ lifecycle # "stopped"
    /\ settings[u] # s
    /\ settings' = [settings EXCEPT ![u] = s]
    /\ last' = Obs("store", NoId, 0)
    /\ ops < MaxOps
    /\ ops' = ops + 1
    /\ UNCHANGED <<now, lifecycle, startup, jobs, tasks, plans, qh, ri, gateway, inflight>>

-----------------------------------------------------------------------------

Next ==
    \/ Tick
    \/ start
    \/ stop
    \/ _schedule_all_reminders
    \/ \E p \in PlanIds : _schedule_plan_reminders(p)
    \/ \E t \in TaskIds, d \in DueTimes : add_task_reminder(t, TaskOwner(t), d)
    \/ \E u \in Users : _schedule_priority_based_reminders(u, settings[u])
    \/ \E j \in jobs, o \in Outcomes : FireTask(j, o)
    \/ \E j \in jobs, os \in [StepIds -> Outcomes] : FirePlan(j, os)
    \/ \E j \in jobs, os \in [TaskIds -> Outcomes] : FireCheck(j, os)
    \/ \E t \in TaskIds, d \in DueTimes, e \in EnergyLevels,
          pr \in TaskPriorities : AddTask(t, d, e, pr)
    \/ \E t \in TaskIds : CompleteTask(t)
    \/ \E t \in TaskIds : DeleteTask(t)
    \/ \E p \in PlanIds, pr \in PlanPriorities : CreatePlan(p, pr)
    \/ \E p \in PlanIds, st \in StepIds : CompleteStep(p, st)
    \/ \E p \in PlanIds : DeletePlan(p)
    \/ \E u \in Users, s \in SettingsIds : UpdateSettings(u, s)

Spec == Init /\ [][Next]_vars

-----------------------------------------------------------------------------
(* Cancelling the job of a key.  ReminderScheduler has no method for it; the *)
(* repository cancels a job by calling remove_job of the APScheduler         *)
(* scheduler it wraps (tests/test_integration.py).                           *)

JobKeys ==
    {TaskJobId(t) : t \in TaskIds} \cup {PlanJobId(p) : p \in PlanIds} \cup
    {CheckJobId(u, pr) : u \in Users, pr \in Priorities} \cup {EnergyJobId}

\* the job _schedule_energy_based_reminders builds: IntervalTrigger(hours=1)
EnergyJob == IntervalJob(EnergyJobId, 60, 0, now)

\* ReminderScheduler._schedule_energy_based_reminders()
_schedule_energy_based_reminders ==
    /\ lifecycle = "running"
    /\ jobs' = add_job(jobs, EnergyJob)
    /\ last' = [Obs("_schedule_energy_based_reminders", EnergyJobId, 0) EXCEPT
                    !.installs = {Install(EnergyJob)},
                    !.replaced = Replaces(EnergyJob)]
    /\ ops < MaxOps
    /\ ops' = ops + 1
    /\ UNCHANGED <<now, lifecycle, startup, tasks, plans, settings, qh, ri, gateway, inflight>>

\* scheduler.scheduler.remove_job(job_id): removes the job of that id from the
\* job store and raises JobLookupError when no job store holds one; arg is
\* the number of jobs that were removed
remove_job(id) ==
    /\ lifecycle = "running"
    /\ jobs' = jobs \ JobsWithId(id)
    /\ last' = [Obs("remove_job", id, 0) EXCEPT
                    !.arg = Cardinality(JobsWithId(id)),
                    !.raised = IF JobsWithId(id) = {} THEN "JobLookupError"
                               ELSE "none"]
    /\ ops < MaxOps
    /\ ops' = ops + 1
    /\ UNCHANGED <<now, lifecycle, startup, tasks, plans, settings, qh, ri, gateway, inflight>>

NextRegistry ==
    \/ start
    \/ stop
    \/ _schedule_all_reminders
    \/ _schedule_energy_based_reminders
    \/ \E p \in PlanIds : _schedule_plan_reminders(p)
    \/ \E t \in TaskIds, d \in DueTimes : add_task_reminder(t, TaskOwner(t), d)
    \/ \E u \in Users : _schedule_priority_based_reminders(u, settings[u])
    \/ \E id \in JobKeys : remove_job(id)
    \/ \E t \in TaskIds, d \in DueTimes, e \in EnergyLevels,
          pr \in TaskPriorities : AddTask(t, d, e, pr)
    \/ \E p \in PlanIds, pr \in PlanPriorities : CreatePlan(p, pr)
    \/ \E u \in Users, s \in SettingsIds : UpdateSettings(u, s)

SpecRegistry == Init /\ [][NextRegistry]_vars

-----------------------------------------------------------------------------
(* _is_quiet_hours as a function of its three times of day *)

QuietHourHours == {0, 3, 6, 7, 12, 14, 22, 23}
QuietHourMinutes == {0, 1, 30, 59}

\* position 1 is the current time, 2 the start and 3 the end of quiet hours
QhTime(i) == 60 * qh.h[i] + qh.m[i]

InitQuiet ==
    /\ now = StartTime
    /\ lifecycle = "new"
    /\ startup = FALSE
    /\ jobs = {}
    /\ tasks = [t \in TaskIds |-> NoTask]
    /\ plans = [p \in PlanIds |-> NoPlan]
    /\ settings = [u \in Users |-> 0]
    /\ ops = 0
    /\ last = Obs("init", NoId, 0)
    /\ qh \in [h : QuietHourHours \X QuietHourHours \X QuietHourHours,
               m : QuietHourMinutes \X QuietHourMinutes \X QuietHourMinutes,
               done : {FALSE}, result : {FALSE}]
    /\ ri = RiIdle
    /\ gateway = <<>>
    /\ inflight = {}

\* self._is_quiet_hours(datetime.now().strftime("%H:%M"), settings) with the
\* strings of the three times
EvalQuiet ==
    /\ ~qh.done
    /\ qh' = [qh EXCEPT !.done = TRUE,
                        !.result = IsQuietHours(strftime(QhTime(1)),
                                                strftime(QhTime(2)),
                                                strftime(QhTime(3)))]
    /\ UNCHANGED <<now, lifecycle, startup, jobs, tasks, plans, settings, ops, last, ri, gateway, inflight>>

NextQuiet == EvalQuiet

SpecQuiet == InitQuiet /\ [][NextQuiet]_vars

-----------------------------------------------------------------------------
(* _is_quiet_hours as a function of its three strings *)

\* "23:00", "07:00", "12:30", and strings that are no time of day:
\* "25:00", "12:60", "0700", "7pm" and the empty string
TimeStrings ==
    {<<"2", "3", ":", "0", "0">>, <<"0", "7", ":", "0", "0">>,
     <<"1", "2", ":", "3", "0">>, <<"2", "5", ":", "0", "0">>,
     <<"1", "2", ":", "6", "0">>, <<"0", "7", "0", "0">>,
     <<"7", "p", "m">>, <<>>}

\* what a call of _is_quiet_hours gives its caller: the ValueError of strptime
\* is caught inside the method, which logs it and returns False
_is_quiet_hours(current_time, quiet_hours_start, quiet_hours_end) ==
    [value |-> IsQuietHours(current_time, quiet_hours_start, quiet_hours_end),
     raised |-> "none"]

InitQuietStrings ==
    /\ now = StartTime
    /\ lifecycle = "new"
    /\ startup = FALSE
    /\ jobs = {}
    /\ tasks = [t \in TaskIds |-> NoTask]
    /\ plans = [p \in PlanIds |-> NoPlan]
    /\ settings = [u \in Users |-> 0]
    /\ ops = 0
    /\ last = Obs("init", NoId, 0)
    /\ qh \in [s : TimeStrings \X TimeStrings \X TimeStrings, done : {FALSE},
               result : {FALSE}, raised : {"none"}]
    /\ ri = RiIdle
    /\ gateway = <<>>
    /\ inflight = {}

\* self._is_quiet_hours(current_time, settings) with the three strings
EvalQuietStrings ==
    /\ ~qh.done
    /\ LET r == _is_quiet_hours(qh.s[1], qh.s[2], qh.s[3])
       IN  qh' = [qh EXCEPT !.done = TRUE, !.result = r.value,
                            !.raised = r.raised]
    /\ UNCHANGED <<now, lifecycle, startup, jobs, tasks, plans, settings, ops, last, ri, gateway, inflight>>

NextQuietStrings == EvalQuietStrings

SpecQuietStrings == InitQuietStrings /\ [][NextQuietStrings]_vars

-----------------------------------------------------------------------------
(* The interval of a reminder, as the code resolves it *)

\* the priority strings: "high", "medium" and "low" stand for
\* Config.PRIORITY_HIGH, PRIORITY_MEDIUM and PRIORITY_LOW, the keys of
\* check_intervals; "en_high" and "en_low" stand for the words high and low,
\* "urgent" for any other string
IntervalPriorities == Priorities \cup {"en_high", "en_low", "urgent"}

\* the time until the due date, in minutes
TimesUntilDue == {30, 60, 61, 120}

\* f"priority_{priority.lower()}_interval": the attribute of the settings it
\* names, for the words high, medium and low; "none" for any other string
SettingsAttr(priority) ==
    CASE priority = "en_high" -> "priority_high_interval"
      [] priority = "en_medium" -> "priority_medium_interval"
      [] priority = "en_low" -> "priority_low_interval"
      [] OTHER -> "none"

\* getattr(settings, f"priority_{priority.lower()}_interval",
\*         self.check_intervals[priority]) in _check_upcoming_tasks: the default
\* is evaluated before getattr is called, and raises KeyError for a priority
\* that is no key of check_intervals
ReminderBase(s, priority) ==
    IF priority \notin DOMAIN check_intervals
    THEN [raised |-> "KeyError", value |-> 0]
    ELSE IF SettingsAttr(priority) # "none"
         THEN [raised |-> "none", value |-> SettingsTable[s][SettingsAttr(priority)]]
         ELSE [raised |-> "none", value |-> check_intervals[priority]]

\* mutation of reminder_interval: the seconds are multiplied by two for a task
\* due within the hour
reminder_interval_doubled(s, priority, time_until_due) ==
    LET base == ReminderBase(s, priority)
    IN  IF base.raised # "none" THEN base
        ELSE IF time_until_due <= 60
             THEN [base EXCEPT !.value = (base.value * 60 * 2) \div 60]
             ELSE base

\* reminder_interval of _check_upcoming_tasks for a task due in time_until_due
\* minutes: timedelta(minutes=total_seconds // 120) for a task due within the
\* hour
reminder_interval(s, priority, time_until_due) ==
    LET base == ReminderBase(s, priority)
    IN  IF base.raised # "none" THEN base
        ELSE IF time_until_due <= 60
             THEN [base EXCEPT !.value = (base.value * 60) \div 120]
             ELSE base

\* the interval _schedule_plan_reminders gives the job of a plan
PlanJobInterval(priority) == [raised |-> "none", value |-> PlanInterval(priority)]

\* the interval _schedule_priority_based_reminders gives the job of a
\* priority: the value of the settings, as it is
PriorityJobInterval(s, priority) ==
    IF priority \in Priorities
    THEN [raised |-> "none", value |-> SettingsInterval(s, priority)]
    ELSE NoResult

InitInterval ==
    /\ now = StartTime
    /\ lifecycle = "new"
    /\ startup = FALSE
    /\ jobs = {}
    /\ tasks = [t \in TaskIds |-> NoTask]
    /\ plans = [p \in PlanIds |-> NoPlan]
    /\ settings = [u \in Users |-> 0]
    /\ ops = 0
    /\ last = Obs("init", NoId, 0)
    /\ qh = QhIdle
    /\ gateway = <<>>
    /\ inflight = {}
    /\ ri \in [priority : IntervalPriorities, s : AllSettingsIds,
               t1 : TimesUntilDue, t2 : TimesUntilDue, done : {FALSE},
               base : {NoResult}, r1 : {NoResult}, r2 : {NoResult},
               plan : {NoResult}, job : {NoResult}]

\* the interval is resolved for the priority and the settings, at the times
\* t1 and t2 before the due date
EvalInterval ==
    /\ ~ri.done
    /\ ri' = [ri EXCEPT
                !.done = TRUE,
                !.base = ReminderBase(ri.s, ri.priority),
                !.r1 = reminder_interval(ri.s, ri.priority, ri.t1),
                !.r2 = reminder_interval(ri.s, ri.priority, ri.t2),
                !.plan = PlanJobInterval(ri.priority),
                !.job = PriorityJobInterval(ri.s, ri.priority)]
    /\ UNCHANGED <<now, lifecycle, startup, jobs, tasks, plans, settings, ops,
                   last, qh, gateway, inflight>>

NextInterval == EvalInterval

SpecInterval == InitInterval /\ [][NextInterval]_vars

-----------------------------------------------------------------------------
(* The morning summary *)

SummaryTaskIds == {1, 2}
SummaryTimes == {540, 780}
SummaryDueTimes == {480, 600, 660}
SummaryPriorities == {"high", "urgent"}
SummaryOutcomes == {"ok", "transient"}
\* task.optimal_time; "none" is the NULL of the column
OptimalTimes == {"morning", "afternoon", "evening", "none"}
SummaryUser == TaskOwner(1)

\* ReminderScheduler._priority_to_number
_priority_to_number(priority) ==
    CASE priority = "high" -> 1
      [] priority = "medium" -> 2
      [] priority = "low" -> 3
      [] OTHER -> 99

\* Database.get_upcoming_tasks(user_id): the tasks of the user that are not
\* completed and due after now
get_upcoming_tasks(u) ==
    {t \in DOMAIN tasks : /\ tasks[t].exists
                          /\ tasks[t].user = u
                          /\ tasks[t].due > now
                          /\ ~tasks[t].completed}

\* mutation of the sort key: the energy level is not negated
SummaryKeyLessAscending(a, b) ==
    LET pa == _priority_to_number(tasks[a].priority)
        pb == _priority_to_number(tasks[b].priority)
    IN  \/ tasks[a].energy < tasks[b].energy
        \/ tasks[a].energy = tasks[b].energy /\ pa < pb
        \/ tasks[a].energy = tasks[b].energy /\ pa = pb
              /\ tasks[a].due < tasks[b].due

\* the sort key of _send_daily_summary, compared as Python compares tuples:
\* (-(energy_level or 0), priority number, due_date)
SummaryKeyLess(a, b) ==
    LET ea == 0 - tasks[a].energy
        eb == 0 - tasks[b].energy
        pa == _priority_to_number(tasks[a].priority)
        pb == _priority_to_number(tasks[b].priority)
    IN  \/ ea < eb
        \/ ea = eb /\ pa < pb
        \/ ea = eb /\ pa = pb /\ tasks[a].due < tasks[b].due

\* position of task t in the sequence sq
IndexIn(sq, t) == CHOOSE i \in 1..Len(sq) : sq[i] = t

\* tasks.sort(key=...): the stable sort of the list sq
SummarySort(sq) ==
    CHOOSE r \in [1..Len(sq) -> {sq[i] : i \in 1..Len(sq)}] :
        /\ \A i, j \in 1..Len(sq) : i # j => r[i] # r[j]
        /\ \A i, j \in 1..Len(sq) :
              i < j => \/ SummaryKeyLess(r[i], r[j])
                       \/ /\ ~SummaryKeyLess(r[j], r[i])
                          /\ IndexIn(sq, r[i]) < IndexIn(sq, r[j])

\* time_group = task.optimal_time or "other"
TimeGroup(t) ==
    IF tasks[t].optimal_time = "none" THEN "other" ELSE tasks[t].optimal_time

\* the groups _send_daily_summary writes into the message: the keys of
\* time_groups, each with its tasks of grouped_tasks in sorted order
SummaryGroups(sorted) ==
    [g \in {"morning", "afternoon", "evening"} |->
        SelectSeq(sorted, LAMBDA t : TimeGroup(t) = g)]

\* ReminderScheduler._send_daily_summary(user_id), for the order sq in which
\* get_upcoming_tasks returned the tasks
DailySummarySends(u, sq, outcome) ==
    LET s == get_reminder_settings(u)
    IN  IF s = 0 \/ "daily" \notin SettingsTable[s].reminder_types THEN {}
        ELSE IF IsQuietHours(strftime(now), SettingsTable[s].quiet_hours_start,
                             SettingsTable[s].quiet_hours_end) THEN {}
        ELSE IF Len(sq) = 0 THEN {}
        ELSE {Send(u, <<"daily_summary", SummaryGroups(SummarySort(sq))>>,
                   outcome)}

SummaryRows ==
    [exists : {TRUE}, user : {SummaryUser}, due : SummaryDueTimes,
     completed : BOOLEAN, energy : EnergyLevels, priority : SummaryPriorities,
     optimal_time : OptimalTimes]

InitSummary ==
    /\ now \in SummaryTimes
    /\ lifecycle = "running"
    /\ startup = FALSE
    /\ jobs = {}
    /\ tasks \in [SummaryTaskIds -> SummaryRows]
    /\ plans = [p \in PlanIds |-> NoPlan]
    /\ settings \in {f \in [Users -> {0} \cup SettingsIds] :
                        \A u \in Users : (f[u] = 0) <=> (u # SummaryUser)}
    /\ ops = 0
    /\ last = Obs("init", NoId, 0)
    /\ qh = QhIdle
    /\ ri = RiIdle
    /\ gateway = <<>>
    /\ inflight = {}

\* the summary job of a user fires and runs _send_daily_summary
_send_daily_summary(u, outcome) ==
    /\ lifecycle = "running"
    /\ \E sq \in DueOrders(get_upcoming_tasks(u)) :
          last' = [Obs("_send_daily_summary", NoId, u) EXCEPT
                    !.quiet = InQuietHours(u, now),
                    !.sends = DailySummarySends(u, sq, outcome)]
    /\ UNCHANGED <<now, lifecycle, startup, jobs, tasks, plans, settings, qh, ri, ops, gateway, inflight>>

\* Database.get_tasks(user_id): all tasks of the user
get_tasks(u) == {t \in DOMAIN tasks : tasks[t].exists /\ tasks[t].user = u}

\* ReminderScheduler._send_evening_summary(user_id): one message with the
\* completed and the pending tasks of the user
EveningSummarySends(u, outcome) ==
    LET s == get_reminder_settings(u)
        completed_tasks == {t \in get_tasks(u) : tasks[t].completed}
        pending_tasks == {t \in get_tasks(u) : ~tasks[t].completed}
    IN  IF s = 0 \/ "daily" \notin SettingsTable[s].reminder_types THEN {}
        ELSE IF IsQuietHours(strftime(now), SettingsTable[s].quiet_hours_start,
                             SettingsTable[s].quiet_hours_end) THEN {}
        ELSE IF get_tasks(u) = {} THEN {}
        ELSE {Send(u, <<"evening_summary",
                        [completed |-> completed_tasks, pending |-> pending_tasks]>>,
                   outcome)}

\* the evening summary job of a user fires and runs _send_evening_summary
_send_evening_summary(u, outcome) ==
    /\ lifecycle = "running"
    /\ last' = [Obs("_send_evening_summary", NoId, u) EXCEPT
                    !.quiet = InQuietHours(u, now),
                    !.sends = EveningSummarySends(u, outcome)]
    /\ UNCHANGED <<now, lifecycle, startup, jobs, tasks, plans, settings, qh, ri, ops, gateway, inflight>>

NextSummary ==
    \/ \E u \in Users, o \in SummaryOutcomes : _send_daily_summary(u, o)
    \/ \E u \in Users, o \in SummaryOutcomes : _send_evening_summary(u, o)

SpecSummary == InitSummary /\ [][NextSummary]_vars

-----------------------------------------------------------------------------
(* The Notifier *)

NotifierMessages == {"reminder", "summary"}

\* what bot.send_message does with one attempt: it returns, raises
\* TelegramAPIError, or raises another exception
GatewayOutcomes == {"ok", "TelegramAPIError", "Exception"}

Attempt(user_id, message, outcome) ==
    [chat_id |-> user_id, text |-> message, outcome |-> outcome]

\* mutation of send_notification: a failed attempt is made once more
NotifierAttemptsRetry(user_id, message, outcome) ==
    IF outcome = "ok" THEN <<Attempt(user_id, message, outcome)>>
    ELSE <<Attempt(user_id, message, outcome), Attempt(user_id, message, outcome)>>

\* the attempts one call of send_notification makes on the gateway
NotifierAttempts(user_id, message, outcome) ==
    <<Attempt(user_id, message, outcome)>>

\* what send_notification gives its caller: True after the send returned,
\* False from either except clause
NotifierResult(outcome) ==
    IF outcome = "ok" THEN [raised |-> "none", value |-> TRUE]
    ELSE IF outcome = "TelegramAPIError" THEN [raised |-> "none", value |-> FALSE]
    ELSE [raised |-> "none", value |-> FALSE]

\* Notifier.send_notification(user_id, message)
send_notification(user_id, message, outcome) ==
    /\ gateway' = gateway \o NotifierAttempts(user_id, message, outcome)
    /\ last' = [Obs("send_notification", NoId, user_id) EXCEPT
                    !.arg = NotifierResult(outcome).value,
                    !.target = message,
                    !.raised = NotifierResult(outcome).raised]
    /\ ops < MaxOps
    /\ ops' = ops + 1
    /\ UNCHANGED <<now, lifecycle, startup, jobs, tasks, plans, settings, qh, ri,
                   inflight>>

NextNotifier ==
    \E u \in Users, message \in NotifierMessages, outcome \in GatewayOutcomes :
        send_notification(u, message, outcome)

SpecNotifier == Init /\ [][NextNotifier]_vars

-----------------------------------------------------------------------------
(* PlanServiceV2: creating plans with a start and an end time of day.  In  *)
(* this specification plans holds the rows of the service's plans table.   *)

PlanMinutes == {540, 600, 660}

PlanIntervals == {iv \in PlanMinutes \X PlanMinutes : iv[1] <= iv[2]}

\* the plan_data the service is called with: well-formed ones, and one with no
\* title and one with a start time that is not HH:MM
PlanData ==
    {[title |-> "plan", start_time |-> strftime(iv[1]),
      end_time |-> strftime(iv[2])] : iv \in PlanIntervals} \cup
    {[title |-> "", start_time |-> strftime(540), end_time |-> strftime(600)],
     [title |-> "plan", start_time |-> <<"9", "a", "m">>,
      end_time |-> strftime(600)]}

\* the users the service is called for; user 0 has no row in the users table
ServiceCalls ==
    {<<u, d>> : u \in Users, d \in PlanData} \cup
    {<<0, [title |-> "plan", start_time |-> strftime(540),
           end_time |-> strftime(600)]>>}

\* PlanServiceV2.check_conflicts(user_id, start_time, end_time)
check_conflicts(user_id, start_time, end_time) ==
    \E plan \in plans : /\ plan.user_id = user_id
                        /\ plan.start_time <= end_time
                        /\ plan.end_time >= start_time

\* the exception create_plan raises, "none" when it stores the plan
CreatePlanRaises(user_id, title, start_string, end_string) ==
    IF user_id \notin Users THEN "InvalidUserError"
    ELSE IF title = "" THEN "EmptyPlanError"
    ELSE IF ParseError \in {strptime(start_string), strptime(end_string)}
         THEN "InvalidTimeFormatError"
    ELSE IF strptime(start_string) < now % 1440 THEN "PastTimeError"
    ELSE IF check_conflicts(user_id, strptime(start_string), strptime(end_string))
         THEN "TimeConflictError"
    ELSE "none"

InitConflicts ==
    /\ now \in {480, 570}
    /\ lifecycle = "new"
    /\ startup = FALSE
    /\ jobs = {}
    /\ tasks = [t \in TaskIds |-> NoTask]
    /\ plans = {}
    /\ settings = [u \in Users |-> 0]
    /\ ops = 0
    /\ last = Obs("init", NoId, 0)
    /\ qh = QhIdle
    /\ ri = RiIdle
    /\ gateway = <<>>
    /\ inflight = {}

\* PlanServiceV2.create_plan(user_id, plan_data); the plans table holds one
\* row per stored plan
create_plan(user_id, plan_data) ==
    LET raised == CreatePlanRaises(user_id, plan_data.title,
                                   plan_data.start_time, plan_data.end_time)
    IN  /\ plans' = IF raised = "none"
                    THEN plans \cup {[user_id |-> user_id,
                                      start_time |-> strptime(plan_data.start_time),
                                      end_time |-> strptime(plan_data.end_time)]}
                    ELSE plans
        /\ last' = [Obs("create_plan", NoId, user_id) EXCEPT
                        !.arg = [start_time |-> strptime(plan_data.start_time),
                                 end_time |-> strptime(plan_data.end_time),
                                 value |-> FALSE],
                        !.raised = raised]
        /\ UNCHANGED <<now, lifecycle, startup, jobs, tasks, settings, qh, ri,
                       ops, gateway, inflight>>

\* a call of check_conflicts by a caller of the service
CheckConflicts(user_id, start_time, end_time) ==
    /\ last' = [Obs("check_conflicts", NoId, user_id) EXCEPT
                    !.arg = [start_time |-> start_time, end_time |-> end_time,
                             value |-> check_conflicts(user_id, start_time,
                                                       end_time)]]
    /\ UNCHANGED <<now, lifecycle, startup, jobs, tasks, plans, settings, qh, ri,
                   ops, gateway, inflight>>

NextConflicts ==
    \/ \E call \in ServiceCalls : create_plan(call[1], call[2])
    \/ \E u \in Users, iv \in PlanIntervals : CheckConflicts(u, iv[1], iv[2])

SpecConflicts == InitConflicts /\ [][NextConflicts]_vars

-----------------------------------------------------------------------------
(* Job callbacks step by step.  AsyncIOScheduler runs a callback as a      *)
(* coroutine on the event loop: it runs without interruption up to its     *)
(* first await, which is bot.send_message, and while the send is awaited   *)
(* the chat handlers, the clock and the other jobs go on.                  *)

\* how the Store answers the reads of a callback
ReadOutcomes == {"ok", "session_fails", "query_fails"}

\* the store holds task 1 with its reminder and plan 1 with its job, both
\* scheduled at StartTime
InitCallbacks ==
    /\ now = StartTime
    /\ lifecycle = "running"
    /\ startup = FALSE
    /\ settings = [u \in Users |-> IF u = TaskOwner(1) THEN 1 ELSE 0]
    /\ \E due \in DueTimes, pr \in PlanPriorities :
          /\ tasks = [t \in TaskIds |->
                        [exists |-> TRUE, user |-> TaskOwner(t), due |-> due,
                         completed |-> FALSE, energy |-> 0, priority |-> "high"]]
          /\ plans = [p \in PlanIds |->
                        [exists |-> TRUE, user |-> PlanOwner(p), priority |-> pr,
                         steps |-> [st \in StepIds |-> "pending"]]]
          /\ jobs = {DateJob(TaskJobId(t),
                             due - SettingsTable[1].default_reminder_time,
                             TaskOwner(t)) : t \in TaskIds} \cup
                    {IntervalJob(PlanJobId(p), PlanInterval(pr), 0, StartTime) :
                        p \in PlanIds}
    /\ ops = 0
    /\ last = Obs("init", NoId, 0)
    /\ qh = QhIdle
    /\ ri = RiIdle
    /\ gateway = <<>>
    /\ inflight = {}

\* a callback awaiting bot.send_message: what it is sending, the steps it will
\* remind after this one, when this send began, and the sends it has made
Flight(id, user, what, rest) ==
    [id |-> id, user |-> user, what |-> what, rest |-> rest, started |-> now,
     sent |-> 1, whats |-> {what}]

InstanceRunning(id) == \E c \in inflight : c.id = id

\* the date job of a task fires: the scheduler finishes the job and starts
\* _send_task_reminder, which runs up to its send.  A read that raises is
\* caught by the except clause of the callback.
BeginTask(job, read) ==
    /\ lifecycle = "running"
    /\ job \in DueJobs
    /\ job.id.k = "task_"
    /\ ~InstanceRunning(job.id)
    /\ jobs' = AfterFire(job)
    /\ LET obs == [Obs("fire_task", job.id, job.user) EXCEPT
                       !.target = TargetState(get_task(job.id.a),
                                              get_task(job.id.a).completed),
                       !.quiet = InQuietHours(job.user, now)]
       IN  IF read # "ok"
           THEN /\ last' = [obs EXCEPT !.target = "read_failed"]
                /\ UNCHANGED inflight
           ELSE IF TaskReminderSends(job.id.a, job.user, "ok") = {}
                THEN /\ last' = obs
                     /\ UNCHANGED inflight
                ELSE /\ last' = [obs EXCEPT !.op = "begin_send"]
                     /\ inflight' = inflight \cup
                            {Flight(job.id, job.user, <<"task", job.id.a>>, <<>>)}
    /\ UNCHANGED <<now, lifecycle, startup, tasks, plans, settings, qh, ri, ops,
                   gateway>>

RECURSIVE PendingSteps(_, _)
\* the steps of plan.steps whose status is not "completed", from step st on
PendingSteps(plan, st) ==
    IF st \notin StepIds THEN <<>>
    ELSE (IF plan.steps[st] # "completed" THEN <<st>> ELSE <<>>) \o
         PendingSteps(plan, st + 1)

\* the interval job of a plan fires: the scheduler advances the job and starts
\* _check_plan_status, which reads the plan and its steps and runs up to its
\* first send.  When get_session raises, the finally clause closes a session
\* that was never bound; when the query raises, the except clause logs it.
BeginPlan(job, read) ==
    /\ lifecycle = "running"
    /\ job \in DueJobs
    /\ job.id.k = "plan_"
    /\ ~InstanceRunning(job.id)
    /\ jobs' = AfterFire(job)
    /\ LET plan == get_plan(job.id.a)
           pending == PendingSteps(plan, 1)
           obs == [Obs("fire_plan", job.id, plan.user) EXCEPT
                       !.target = TargetState(plan, pending = <<>>),
                       !.quiet = InQuietHours(plan.user, now)]
       IN  IF read = "session_fails"
           THEN /\ last' = [obs EXCEPT !.target = "read_failed",
                                       !.raised = "UnboundLocalError"]
                /\ UNCHANGED inflight
           ELSE IF read = "query_fails"
           THEN /\ last' = [obs EXCEPT !.target = "read_failed"]
                /\ UNCHANGED inflight
           ELSE IF ~plan.exists \/ pending = <<>>
                THEN /\ last' = obs
                     /\ UNCHANGED inflight
                ELSE /\ last' = [obs EXCEPT !.op = "begin_send"]
                     /\ inflight' = inflight \cup
                            {Flight(job.id, plan.user, <<"step", Head(pending)>>,
                                    Tail(pending))}
    /\ UNCHANGED <<now, lifecycle, startup, tasks, plans, settings, qh, ri, ops,
                   gateway>>

\* a job is due while its previous callback has not returned: the scheduler
\* skips the run (max_instances = 1) and moves the job on
SkipFire(job) ==
    /\ lifecycle = "running"
    /\ job \in DueJobs
    /\ InstanceRunning(job.id)
    /\ jobs' = AfterFire(job)
    /\ last' = Obs("skip_fire", job.id, job.user)
    /\ UNCHANGED <<now, lifecycle, startup, tasks, plans, settings, qh, ri, ops,
                   gateway, inflight>>

\* the target of a callback as the Store holds it now
TargetNow(id) ==
    IF id.k = "task_"
    THEN TargetState(get_task(id.a), get_task(id.a).completed)
    ELSE TargetState(get_plan(id.a),
                     \A st \in StepIds : get_plan(id.a).steps[st] = "completed")

\* the send a callback awaits ends with outcome; an exception is logged by
\* the except clause around the send.  The callback goes on to the next step
\* of the steps it has read, or returns.
SendReturns(c, outcome) ==
    /\ c \in inflight
    /\ LET result == [sent |-> c.sent, distinct |-> Cardinality(c.whats),
                      outcome |-> outcome, waited |-> now - c.started]
       IN  IF c.rest = <<>>
           THEN /\ inflight' = inflight \ {c}
                /\ last' = [Obs("callback_done", c.id, c.user) EXCEPT
                                !.arg = result,
                                !.target = TargetNow(c.id)]
           ELSE /\ inflight' = (inflight \ {c}) \cup
                        {[c EXCEPT !.what = <<"step", Head(c.rest)>>,
                                   !.rest = Tail(c.rest),
                                   !.started = now,
                                   !.sent = c.sent + 1,
                                   !.whats = c.whats \cup {<<"step", Head(c.rest)>>}]}
                /\ last' = [Obs("send_returned", c.id, c.user) EXCEPT
                                !.arg = result,
                                !.target = TargetNow(c.id)]
    /\ UNCHANGED <<now, lifecycle, startup, jobs, tasks, plans, settings, qh, ri,
                   ops, gateway>>

NextCallbacks ==
    \/ Tick
    \/ \E j \in jobs, read \in ReadOutcomes : BeginTask(j, read)
    \/ \E j \in jobs, read \in ReadOutcomes : BeginPlan(j, read)
    \/ \E j \in jobs : SkipFire(j)
    \/ \E c \in inflight, o \in Outcomes : SendReturns(c, o)
    \/ \E t \in TaskIds : CompleteTask(t)
    \/ \E p \in PlanIds, st \in StepIds : CompleteStep(p, st)
    \/ \E p \in PlanIds : DeletePlan(p)
    \/ \E id \in {TaskJobId(t) : t \in TaskIds} \cup
                 {PlanJobId(p) : p \in PlanIds} : remove_job(id)

SpecCallbacks == InitCallbacks /\ [][NextCallbacks]_vars

-----------------------------------------------------------------------------
(* Properties *)

QhLe(i, j) ==
    qh.h[i] < qh.h[j] \/ (qh.h[i] = qh.h[j] /\ qh.m[i] <= qh.m[j])

\* C2: for valid HH:MM strings _is_quiet_hours is true exactly when
\* (start <= end and start <= now <= end) or (start > end and (now >= start or
\* now <= end)), both bounds inclusive; for 23:00-07:00 it is true at 23:30,
\* 03:00, 06:59 and false at 07:01, 12:00, 22:59; for 12:00-14:00 it is true
\* only within [12:00, 14:00].
C2_QuietHoursWindow ==
    qh.done =>
        /\ qh.result <=> \/ (QhLe(2, 3) /\ QhLe(2, 1) /\ QhLe(1, 3))
                         \/ (~QhLe(2, 3) /\ (QhLe(2, 1) \/ QhLe(1, 3)))
        /\ (QhTime(2) = 23 * 60 /\ QhTime(3) = 7 * 60) =>
              /\ QhTime(1) \in {23 * 60 + 30, 3 * 60, 6 * 60 + 59} => qh.result
              /\ QhTime(1) \in {7 * 60 + 1, 12 * 60, 22 * 60 + 59} => ~qh.result
        /\ (QhTime(2) = 12 * 60 /\ QhTime(3) = 14 * 60) =>
              (qh.result <=> (12 * 60 <= QhTime(1) /\ QhTime(1) <= 14 * 60))

\* 06:59 is found inside the quiet hours 23:00-07:00
C2_Witness ==
    /\ qh.done
    /\ qh.h = <<6, 23, 7>>
    /\ qh.m = <<59, 0, 0>>
    /\ qh.result

\* the user who owns the target of a job
JobOwner(j) == IF j.id.k = "plan_" THEN plans[j.id.a].user ELSE j.user

\* C3: no notification of any kind is sent to a user at a moment inside that
\* user's quiet hours.
C3_NoSendInQuietHours == \A s \in last.sends : ~s.quiet

\* C4: when a target's job fires inside quiet hours and is suppressed, a job
\* for that target is still live afterwards (quiet hours delay a reminder and
\* do not cancel it).
C4_SuppressedJobStaysLive ==
    (/\ last.op \in {"fire_task", "fire_plan"}
     /\ last.target = "active"
     /\ last.quiet
     /\ last.sends = {})
        => JobsWithId(last.id) # {}

\* C5: when a job fires and its target is completed or no longer in the
\* Store, the job is removed: no live job for that target remains.
C5_DoneTargetJobRemoved ==
    (/\ last.op \in {"fire_task", "fire_plan"}
     /\ last.target \in {"missing", "completed"})
        => JobsWithId(last.id) = {}

\* C6: a failed delivery never loses the job: after a fire whose send failed
\* the job is still live.
C6_FailedSendKeepsJob ==
    (/\ last.op \in {"fire_task", "fire_plan"}
     /\ \E s \in last.sends : s.outcome # "ok")
        => JobsWithId(last.id) # {}

\* C7: when delivery to a user fails with a permanent error, all live jobs of
\* that user are cancelled.
C7_PermanentErrorCancelsJobs ==
    \A s \in last.sends :
        s.outcome = "permanent" => \A j \in jobs : JobOwner(j) # s.user

Max(a, b) == IF a >= b THEN a ELSE b

\* C8: add_task_reminder for a non-completed task installs a job whose fire
\* time is dueAt minus the user's lead minutes (the lead add_task_reminder
\* derives from the settings), or "now" when that time is already past; it
\* never skips scheduling.
C8_ReminderAlwaysInstalled ==
    (/\ last.op = "add_task_reminder"
     /\ last.target = "active"
     /\ ~tasks[last.id.a].completed)
        => \E j \in JobsWithId(last.id) :
              j.next = Max(last.arg -
                  AdvanceTime(settings[last.user], tasks[last.id.a]), now)

\* C9: after add_task_reminder is called again for a task with a changed due
\* date, the only live job of the task has the fire time derived from the
\* latest due date; no job derived from an earlier due date remains.
C9_NoStaleReminder ==
    (/\ last.op = "add_task_reminder"
     /\ last.target = "active")
        => \A j \in JobsWithId(last.id) :
              j.next = Max(last.arg -
                  AdvanceTime(settings[last.user], tasks[last.id.a]), now)

\* the summary jobs of a user
SummaryJobs(u) ==
    {j \in jobs : j.id.k \in {"daily_summary_", "evening_summary_"} /\ j.id.a = u}

\* C10: after the startup scheduling has finished there is a live job for
\* every non-completed task, for every plan with a step to do, and a summary
\* job for every user with settings.
C10_StartupSchedulesAll ==
    last.op = "_schedule_all_reminders" =>
        /\ \A t \in TaskIds :
              (tasks[t].exists /\ ~tasks[t].completed) =>
                  JobsWithId(TaskJobId(t)) # {}
        /\ \A p \in PlanIds :
              (plans[p].exists /\ \E st \in StepIds : plans[p].steps[st] # "completed")
                  => JobsWithId(PlanJobId(p)) # {}
        /\ \A u \in Users : settings[u] # 0 => SummaryJobs(u) # {}

\* the row of SettingsTable that holds the column defaults of ReminderSettings
DefaultSettingsId == 1

\* C11: for a user who has no persisted ReminderSettings, reading the settings
\* yields the default settings, so add_task_reminder (and every fire handler)
\* proceeds with the defaults instead of silently doing nothing: the reminder
\* of an existing task is installed at the due date minus the default lead,
\* and a fire outside the default quiet hours for an active task sends.
C11_DefaultsWithoutSettings ==
    /\ (/\ last.op = "add_task_reminder"
        /\ settings[last.user] = 0
        /\ tasks[last.id.a].exists
        /\ last.arg - AdvanceTime(DefaultSettingsId, tasks[last.id.a]) > now)
          => \E i \in last.installs :
                i.next = last.arg - AdvanceTime(DefaultSettingsId, tasks[last.id.a])
    /\ (/\ last.op = "fire_task"
        /\ settings[last.user] = 0
        /\ last.target = "active"
        /\ ~IsQuietHours(strftime(now),
                         SettingsTable[DefaultSettingsId].quiet_hours_start,
                         SettingsTable[DefaultSettingsId].quiet_hours_end))
          => last.sends # {}

\* C15: every fire re-reads the target from the Store, so a notification is
\* never sent for a task or a plan step whose stored state is completed when
\* the fire reads it, even when it was not completed when the job was
\* scheduled.
C15_NoSendForCompleted ==
    \A s \in last.sends :
        /\ s.what[1] = "task" =>
              tasks[s.what[2]].exists /\ ~tasks[s.what[2]].completed
        /\ s.what[1] = "step" =>
              /\ plans[last.id.a].exists
              /\ plans[last.id.a].steps[s.what[2]] # "completed"

\* the job of a task completed after it was scheduled fires outside quiet
\* hours and sends nothing
C15_Witness ==
    /\ last.op = "fire_task"
    /\ last.target = "completed"
    /\ ~last.quiet
    /\ last.sends = {}

QuietHoursEndAfter(u, t) ==
    LET end == strptime(SettingsTable[settings[u]].quiet_hours_end)
        day == t - (t % 1440)
    IN  IF end > t % 1440 THEN day + end ELSE day + 1440 + end

\* C17: for a high-priority target due in 90 minutes with a 30-minute interval
\* whose first fire falls inside quiet hours, that fire sends nothing and the
\* job's next fire time becomes the quiet-hours end time, not now + 30 minutes.
\* (The target is due 90 minutes after the job was installed; the fire is the
\* first one when it happens at the start date of the trigger.)
C17_QuietFireMovesToQuietEnd ==
    (/\ last.op = "fire_check"
     /\ last.id.p = "high"
     /\ last.quiet
     /\ \E j \in JobsWithId(last.id) : j.start = now /\ j.interval = 30
     /\ \E t \in TaskIds : /\ tasks[t].exists
                           /\ tasks[t].user = last.user
                           /\ tasks[t].priority = "high"
                           /\ ~tasks[t].completed
                           /\ tasks[t].due = (now - 30) + 90)
        => /\ last.sends = {}
           /\ \A j \in JobsWithId(last.id) :
                 j.next = QuietHoursEndAfter(last.user, now)

\* C12: cancelling the job of a key that has no live job (never scheduled, or
\* already cancelled) is a no-op: it raises no error and leaves every other
\* job unchanged.
C12_CancelMissingIsNoOp ==
    [][(last'.op = "remove_job" /\ JobsWithId(last'.id) = {})
          => (last'.raised = "none" /\ jobs' = jobs)]_vars

\* the string has the form HH:MM of a time of day
IsHHMM(s) ==
    /\ Len(s) = 5
    /\ s[3] = ":"
    /\ \A i \in {1, 2, 4, 5} : IsDigit(s[i])
    /\ 10 * DigitValue(s[1]) + DigitValue(s[2]) <= 23
    /\ 10 * DigitValue(s[4]) + DigitValue(s[5]) <= 59

\* C13: _is_quiet_hours given a malformed start, end or current-time string
\* (not HH:MM) surfaces an error to its caller; it never answers false or any
\* other default for malformed input.
C13_MalformedTimeRaises ==
    (qh.done /\ \E i \in 1..3 : ~IsHHMM(qh.s[i])) => qh.raised # "none"

\* the number of places of the digest groups at which task t is listed
DigestPlaces(groups, t) ==
    {<<g, i>> \in {"morning", "afternoon", "evening"} \X (1..Cardinality(DOMAIN tasks)) :
        i <= Len(groups[g]) /\ groups[g][i] = t}

\* C14: the morning summary for a user lists every non-completed target of
\* that user: each non-completed task appears in exactly one optimal-time
\* group of the digest, for every value of its optimal time (morning,
\* afternoon, evening, or not set) and of its due date.
C14_SummaryListsAllOpenTasks ==
    \A s \in last.sends :
        s.what[1] = "daily_summary" =>
            \A t \in DOMAIN tasks :
                (tasks[t].exists /\ tasks[t].user = s.user /\ ~tasks[t].completed)
                    => Cardinality(DigestPlaces(s.what[2], t)) = 1

\* C18: interval lookup falls back to the low-tier interval for an unknown or
\* missing priority in every place an interval is resolved
\* (_schedule_plan_reminders and _check_upcoming_tasks): it never raises and
\* never yields another tier's interval.
C18_UnknownPriorityFallsBackToLow ==
    (ri.done /\ ri.priority \notin Priorities) =>
        /\ ri.plan.raised = "none"
        /\ ri.plan.value = check_intervals["low"]
        /\ ri.base.raised = "none"
        /\ ri.base.value \in {check_intervals["low"],
                              SettingsTable[ri.s].priority_low_interval}

\* C19: for every priority, settings and time until due, the resolved reminder
\* interval is a positive integer number of minutes (>= 1): when the time
\* until due is at most one hour the accelerated interval is floored at 1
\* minute, and a zero or negative base interval is rejected as a configuration
\* error rather than yielding a non-positive interval or a job.
C19_IntervalPositive ==
    ri.done =>
        /\ \A r \in {ri.r1, ri.r2, ri.plan} : r.raised = "none" => r.value >= 1
        /\ ri.priority \in Priorities =>
              \/ ri.job.raised # "none"
              \/ ri.job.value >= 1

\* C20: for fixed settings and priority, the resolved interval is monotone in
\* the time until due: for any t1 >= t2 the interval resolved at t1 is >= the
\* interval resolved at t2 (e.g. at 2h versus at 30m), so acceleration never
\* increases the interval as the deadline nears.
C20_IntervalMonotone ==
    (ri.done /\ ri.t1 >= ri.t2 /\ ri.r1.raised = "none" /\ ri.r2.raised = "none")
        => ri.r1.value >= ri.r2.value

\* the high interval resolved two hours before the due date is larger than
\* the one resolved thirty minutes before it
C20_Witness ==
    /\ ri.done
    /\ ri.priority = "high"
    /\ ri.t1 = 120
    /\ ri.t2 = 30
    /\ ri.r1.raised = "none"
    /\ ri.r2.raised = "none"
    /\ ri.r1.value > ri.r2.value

\* C21: for a non-completed task whose due time is at most 1 hour away, the
\* time between two consecutive notifications for it is strictly shorter than
\* the base interval of its priority tier: the accelerated interval is what
\* determines when the job next fires.
C21_LastHourFiresFaster ==
    (/\ last.op = "fire_check"
     /\ settings[last.user] # 0
     /\ \E t \in TaskIds : /\ tasks[t].exists
                           /\ tasks[t].user = last.user
                           /\ tasks[t].priority = last.id.p
                           /\ ~tasks[t].completed
                           /\ tasks[t].due > now
                           /\ tasks[t].due - now <= 60)
        => \A j \in JobsWithId(last.id) :
              j.next - now < SettingsInterval(settings[last.user], last.id.p)

\* C30: within one fire of a plan job, _check_plan_status attempts one
\* reminder for every non-completed step of the plan and none for completed
\* steps; a send failure for one step neither prevents the attempts for the
\* remaining steps nor removes the plan's job.
C30_EveryOpenStepReminded ==
    (last.op = "fire_plan" /\ last.target # "missing") =>
        /\ \A s \in last.sends : s.what[1] = "step"
        /\ {s.what[2] : s \in last.sends} =
              {st \in StepIds : plans[last.id.a].steps[st] # "completed"}
        /\ Cardinality(last.sends) =
              Cardinality({st \in StepIds : plans[last.id.a].steps[st] # "completed"})
        /\ JobsWithId(last.id) # {}

\* a plan job fired with two steps to do: the send for step 1 failed and the
\* one for step 2 was still made
C30_Witness ==
    /\ last.op = "fire_plan"
    /\ \E s \in last.sends : s.what = <<"step", 1>> /\ s.outcome # "ok"
    /\ \E s \in last.sends : s.what = <<"step", 2>> /\ s.outcome = "ok"
    /\ JobsWithId(last.id) # {}

\* the rank of a priority in the digest: high < medium < low < unknown
PriorityRank(priority) ==
    IF priority = "high" THEN 1
    ELSE IF priority = "medium" THEN 2
    ELSE IF priority = "low" THEN 3
    ELSE 4

\* task a may be listed before task b: its (-energyLevel, priorityRank, dueAt)
\* is not greater
DigestOrdered(a, b) ==
    \/ tasks[a].energy > tasks[b].energy
    \/ /\ tasks[a].energy = tasks[b].energy
       /\ PriorityRank(tasks[a].priority) < PriorityRank(tasks[b].priority)
    \/ /\ tasks[a].energy = tasks[b].energy
       /\ PriorityRank(tasks[a].priority) = PriorityRank(tasks[b].priority)
       /\ tasks[a].due <= tasks[b].due

\* C27: within each optimal-time group of the morning summary, tasks are
\* listed in ascending order of (-energyLevel, priorityRank, dueAt), where a
\* missing energy level counts as 0 and priorities rank high < medium < low <
\* unknown.
C27_DigestGroupsSorted ==
    \A s \in last.sends :
        s.what[1] = "daily_summary" =>
            \A g \in DOMAIN s.what[2] :
                \A i, j \in 1..Len(s.what[2][g]) :
                    i < j => DigestOrdered(s.what[2][g][i], s.what[2][g][j])

\* a digest lists two tasks in one group, the one of higher energy first
\* although it is due later
C27_Witness ==
    \E s \in last.sends :
        /\ s.what[1] = "daily_summary"
        /\ \E g \in DOMAIN s.what[2] :
              /\ Len(s.what[2][g]) = 2
              /\ tasks[s.what[2][g][1]].energy > tasks[s.what[2][g][2]].energy
              /\ tasks[s.what[2][g][1]].due > tasks[s.what[2][g][2]].due

\* C29: _send_daily_summary and _send_evening_summary send nothing for a user
\* who has no settings or whose enabled reminder kinds do not include "daily";
\* for a user whose enabled kinds are the default value ("all") the summary is
\* sent whenever the user has tasks and it is not quiet hours.
C29_SummaryForDefaultKinds ==
    last.op \in {"_send_daily_summary", "_send_evening_summary"} =>
        LET s == settings[last.user]
            has_tasks == IF last.op = "_send_daily_summary"
                         THEN get_upcoming_tasks(last.user) # {}
                         ELSE get_tasks(last.user) # {}
        IN  /\ s = 0 => last.sends = {}
            /\ (s # 0 /\ SettingsTable[s].reminder_types \cap {"daily", "all"} = {})
                  => last.sends = {}
            /\ (s # 0 /\ SettingsTable[s].reminder_types = {"all"}
                  /\ has_tasks /\ ~last.quiet) => last.sends # {}

SchedulingOps ==
    {"_schedule_all_reminders", "_schedule_plan_reminders", "add_task_reminder",
     "_schedule_priority_based_reminders", "_schedule_energy_based_reminders"}

\* C26: job keys of different kinds never collide: scheduling or replacing the
\* job of a task with id N leaves the job of a plan with the same id N, and
\* every per-user priority-check job and the energy-check job, unchanged, and
\* vice versa: a scheduling call leaves every job unchanged whose key is not
\* one of the keys it installs.
C26_KindsDoNotCollide ==
    [][last'.op \in SchedulingOps =>
          \A j \in jobs :
              j.id \notin {i.id : i \in last'.installs} => j \in jobs']_vars

\* the reminder of task 1 was installed while the job of plan 1 is live, and
\* both are in the store
C26_Witness ==
    /\ last.op = "add_task_reminder"
    /\ last.installs # {}
    /\ last.id.a \in PlanIds
    /\ JobsWithId(PlanJobId(last.id.a)) # {}
    /\ JobsWithId(last.id) # {}

\* C25: Notifier.send_notification makes exactly one gateway send attempt per
\* call and reports the outcome as a value: true on success, false on any
\* gateway or unexpected exception; it never retries internally and never
\* raises to its caller.
C25_OneAttemptPerCall ==
    last.op = "send_notification" =>
        /\ Len(gateway) = ops
        /\ gateway[Len(gateway)].chat_id = last.user
        /\ gateway[Len(gateway)].text = last.target
        /\ last.arg = (gateway[Len(gateway)].outcome = "ok")
        /\ last.raised = "none"

\* a call whose attempt raised an unexpected exception, after an earlier call
\* whose attempt raised TelegramAPIError
C25_Witness ==
    /\ last.op = "send_notification"
    /\ Len(gateway) >= 2
    /\ gateway[Len(gateway)].outcome = "Exception"
    /\ gateway[Len(gateway) - 1].outcome = "TelegramAPIError"
    /\ last.arg = FALSE

\* an existing plan of the user and the interval share more than a point
PositiveOverlap(user_id, start_time, end_time) ==
    \E plan \in plans : /\ plan.user_id = user_id
                        /\ plan.start_time < plan.end_time
                        /\ start_time < end_time
                        /\ plan.start_time < end_time
                        /\ start_time < plan.end_time

\* C28: check_conflicts(user, start, end) returns true exactly when an existing
\* plan of that user overlaps the interval with positive length; an interval
\* that only touches an existing plan at an endpoint (existing 09:00-10:00, new
\* 10:00-11:00) is not a conflict, and create_plan raises TimeConflictError
\* exactly when check_conflicts is true, leaving the stored plans unchanged.
C28_ConflictIsPositiveOverlap ==
    [][/\ last'.op = "check_conflicts" =>
            last'.arg.value = PositiveOverlap(last'.user, last'.arg.start_time,
                                              last'.arg.end_time)
       /\ (last'.op = "create_plan" /\
           last'.raised \in {"none", "TimeConflictError"}) =>
            /\ (last'.raised = "TimeConflictError") =
                   PositiveOverlap(last'.user, last'.arg.start_time,
                                   last'.arg.end_time)
            /\ last'.raised = "TimeConflictError" => plans' = plans]_vars

\* C22: if a target is completed or its job cancelled concurrently with that
\* job's callback firing (the change lands between the callback's Store read
\* and its send, or between send and reschedule), at most one notification is
\* sent for that fire and afterwards the target has no live job; the in-flight
\* callback does not re-install the job.  The callback began its send for an
\* active target, so a target that is completed when the callback returns was
\* completed during the flight; no reminded item is sent twice.
C22_FireCancelRaceIsClean ==
    (last.op = "callback_done" /\ last.target = "completed") =>
        /\ last.arg.sent = last.arg.distinct
        /\ last.id.k = "task_" => last.arg.sent <= 1
        /\ last.installs = {}
        /\ JobsWithId(last.id) = {}

\* C23: a gateway send that never returns for one job does not prevent other
\* jobs from firing on time, and that job's send is abandoned after a bounded
\* timeout and treated as a transient failure, after which the same job fires
\* again at its normal cadence: when the send of an active target ends as a
\* transient failure after time has passed, with no store change or
\* cancellation in the run, the job of the target is live.
C23_TimedOutSendFiresAgain ==
    (/\ last.op = "callback_done"
     /\ last.arg.outcome = "transient"
     /\ last.arg.waited > 0
     /\ last.target = "active"
     /\ ops = 0) =>
        JobsWithId(last.id) # {}

\* C24: if the Store read fails during a fire (creating the session or running
\* the query raises), the failure is contained inside the callback, the job
\* remains live, and it is rescheduled at a short fixed backoff, sooner than
\* its normal cadence; the target is not treated as deleted and the job is
\* not lost.
C24_ReadFailureBacksOff ==
    (last.op \in {"fire_task", "fire_plan"} /\ last.target = "read_failed") =>
        /\ last.raised = "none"
        /\ JobsWithId(last.id) # {}
        /\ \A j \in JobsWithId(last.id) :
              j.trigger = "date" \/ j.next < now + j.interval

====
